---- MODULE Spec2Model ----
(***************************************************************************)
(* Verification model of package traktdeviceauth (OAuth2 device flow for   *)
(* the Trakt API).  The repository holds the package in two variants:      *)
(*   src/traktdeviceauth.go   (definitions ending in Legacy)               *)
(*   src/unnamed/part_001     (definitions without suffix)                 *)
(* One run of the model follows the flow of the demo program               *)
(* (src/unnamed/part_000): GenerateNewCode, PollForAuthToken and, where    *)
(* the variant has it, RefreshAccessToken.  The variable `version` selects *)
(* which variant's functions are executed.                                 *)
(*                                                                         *)
(* Time is a discrete clock of seconds.  A goroutine blocked in select or  *)
(* in http.Client.Do with a ready event runs before the clock advances.    *)
(* When several select cases are ready the choice is nondeterministic, as  *)
(* in Go.                                                                  *)
(***************************************************************************)
EXTENDS Integers, Sequences, FiniteSets, TLC

VARIABLES
    version,        \* which variant of the package is linked in
    pc,             \* position of the caller / of PollForAuthTokenContext
    now,            \* wall clock, seconds
    cancelled,      \* the caller-supplied context has been cancelled
    parentDeadline, \* the caller-supplied context's own deadline, if any
    genOutcome,     \* what http.DefaultClient.Do gave GenerateNewCodeContext
    genResult,      \* (CodeResponse, error) returned by GenerateNewCodeContext
    codeResp,       \* the codeResp parameter of PollForAuthTokenContext
    entryTime,      \* time.Now() at entry of PollForAuthTokenContext
    deadline,       \* the deadline handed to context.WithDeadline
    timerAt,        \* instant at which the pending time.After channel fires
    attempts,       \* number of RequestTokenContext calls made by the poll
    outcomes,       \* what Do gave each attempt that has returned, in order
    reqResult,      \* (TokenResponse, error) returned by the last attempt
    pollExit,       \* the select case the poll returned from: "timer", "ctx"
    pollResult,     \* (TokenResponse, error) returned by the poll
    refreshOutcome, \* what Do gave RefreshAccessTokenContext
    refreshResult,  \* (TokenResponse, error) returned by RefreshAccessToken
    TraktAPIBaseUrl, \* the package-level variable of src/unnamed/part_001
    timersMade,     \* number of time.After timers the poll has created
    armedTimers,    \* firing instants of the timers that have not fired yet
    requestAt,      \* instant at which the last attempt was started
    requestUrl,     \* URL the last attempt posted to
    requestBody,    \* fields of the JSON body the last attempt posted
    returnAt,       \* instant at which the last attempt returned
    instantReplies, \* every attempt returned at the instant it started
    openBodies      \* response bodies obtained from Do and not closed

\* fixed for the whole run
envVars == << version, parentDeadline >>
\* written by GenerateNewCode
genVars == << genOutcome, genResult >>
\* the parameter and the locals of PollForAuthTokenContext set at entry
entryVars == << codeResp, entryTime, deadline >>
\* written when the poll returns
exitVars == << pollExit, pollResult >>
\* written by RefreshAccessToken
refreshVars == << refreshOutcome, refreshResult >>

\* the log of the poll's timers and attempts
logVars == << timersMade, armedTimers, requestAt, requestUrl, requestBody,
             returnAt, instantReplies >>

vars == << envVars, pc, now, cancelled, genVars, entryVars, timerAt, attempts,
           outcomes, reqResult, exitVars, refreshVars, TraktAPIBaseUrl,
           logVars, openBodies >>

---------------------------------------------------------------------------
(* Bounds of the model *)

\* largest expires_in a device-code grant carries
MaxExpiresIn == 4
\* largest interval a device-code grant carries
MaxInterval == 2
\* latest instant at which the caller enters PollForAuthTokenContext
MaxEntry == 1
\* latest deadline of the caller-supplied context
MaxParentDeadline == 3

\* the clock stops after every deadline of the model has passed
MaxTime == MaxEntry + MaxExpiresIn + 1
\* cap on exchange attempts; it binds only when Interval = 0 (busy loop)
MaxAttempts == MaxExpiresIn + 2

Versions == {"traktdeviceauth.go", "part_001"}

---------------------------------------------------------------------------
(* Errors *)

Nil == [kind |-> "nil"]

\* errors.New at package level: one value per name
Sentinel(name) == [kind |-> "sentinel", name |-> name]

ErrDeviceCodeUnclaimed == Sentinel("ErrDeviceCodeUnclaimed")
ErrInvalidGrant == Sentinel("ErrInvalidGrant")
ErrInvalidDeviceCode == Sentinel("ErrInvalidDeviceCode")
ErrForbidden == Sentinel("ErrForbidden")
ErrDeviceCodeAlreadyApproved == Sentinel("ErrDeviceCodeAlreadyApproved")
ErrDeviceCodeExpired == Sentinel("ErrDeviceCodeExpired")
ErrDeviceCodeDenied == Sentinel("ErrDeviceCodeDenied")
ErrPollRateTooFast == Sentinel("ErrPollRateTooFast")
ErrServerError == Sentinel("ErrServerError")
ErrServiceOverloaded == Sentinel("ErrServiceOverloaded")
ErrCloudflareError == Sentinel("ErrCloudflareError")

NamedErrors ==
    { ErrDeviceCodeUnclaimed, ErrInvalidGrant, ErrInvalidDeviceCode, ErrForbidden,
      ErrDeviceCodeAlreadyApproved, ErrDeviceCodeExpired, ErrDeviceCodeDenied,
      ErrPollRateTooFast, ErrServerError, ErrServiceOverloaded, ErrCloudflareError }

\* errors of the standard library that reach the package
ErrNetwork == [kind |-> "transport", cause |-> "network"]
ErrContext == [kind |-> "transport", cause |-> "context"]
ErrRead == [kind |-> "read"]
ErrDecode == [kind |-> "decode"]

\* errors.New(msg) inside a function: a fresh error known by its message only
Plain(msg) == [kind |-> "plain", msg |-> msg]

\* fmt.Errorf("<op>: unexpected status code '%v'", code)
UnexpectedStatus(op, code) == [kind |-> "unexpected", op |-> op, code |-> code]

\* fmt.Errorf("<op>: %w", err).  A nil operand is no error: %w prints
\* %!w(<nil>) and the result wraps nothing.
Errorf(op, err) ==
    IF err = Nil
    THEN Plain(op \o ": %!w(<nil>)")
    ELSE [kind |-> "wrap", op |-> op, inner |-> err]

\* errors.Is(err, target) for a non-nil target
RECURSIVE ErrorsIs(_, _)
ErrorsIs(err, target) ==
    IF err = Nil THEN FALSE
    ELSE IF err = target THEN TRUE
    ELSE IF err.kind = "wrap" THEN ErrorsIs(err.inner, target)
    ELSE FALSE

---------------------------------------------------------------------------
(* Records *)

\* time.Time: the zero value, or an instant given in seconds since the epoch
ZeroTime == [zero |-> TRUE, unix |-> 0]

\* time.Unix(sec, 0)
TimeUnix(sec) == [zero |-> FALSE, unix |-> sec]

\* t.Add with the sign of the duration inverted
TimeAdd_Backwards(t, secs) == [zero |-> FALSE, unix |-> t.unix - secs]

\* t.Add(time.Second * time.Duration(secs)) for an instant made by time.Unix
TimeAdd(t, secs) == [zero |-> FALSE, unix |-> t.unix + secs]

\* CodeResponse{}
ZeroCodeResponse ==
    [DeviceCode |-> "", UserCode |-> "", VerificationURL |-> "",
     ExpiresIn |-> 0, Interval |-> 0]

\* TokenResponse{}
ZeroTokenResponse ==
    [AccessToken |-> "", TokenType |-> "", ExpiresAt |-> ZeroTime,
     RefreshToken |-> "", Scope |-> "", CreatedAt |-> ZeroTime]

\* JSON documents the server may send for a device code (wire field names)
CodeDocs ==
    { [device_code |-> "abc", user_code |-> "UC",
       verification_url |-> "https://trakt.tv/activate",
       expires_in |-> e, interval |-> i] :
         e \in (-1)..MaxExpiresIn, i \in 0..MaxInterval }

\* JSON documents the server may send for a token (wire field names);
\* the last one is the document {} whose fields are all absent
TokenDocs ==
    { [access_token |-> "AT", token_type |-> "bearer", expires_in |-> x,
       refresh_token |-> "RT", scope |-> "public", created_at |-> 1700000000] :
         x \in {7776000, 0, -60} }
    \cup
    { [access_token |-> "", token_type |-> "", expires_in |-> 0,
       refresh_token |-> "", scope |-> "", created_at |-> 0] }

\* json.Unmarshal with the json tags of ExpiresIn and Interval exchanged
UnmarshalCodeResponse_TagsExchanged(doc) ==
    [DeviceCode |-> doc.device_code, UserCode |-> doc.user_code,
     VerificationURL |-> doc.verification_url,
     ExpiresIn |-> doc.interval, Interval |-> doc.expires_in]

\* json.Unmarshal(b, &codeResp) on a well-formed document
UnmarshalCodeResponse(doc) ==
    [DeviceCode |-> doc.device_code, UserCode |-> doc.user_code,
     VerificationURL |-> doc.verification_url,
     ExpiresIn |-> doc.expires_in, Interval |-> doc.interval]

\* json.Unmarshal(b, &respStruct) on a well-formed document
UnmarshalInternalTokenResponse(doc) ==
    [AccessToken |-> doc.access_token, TokenType |-> doc.token_type,
     ExpiresIn |-> doc.expires_in, RefreshToken |-> doc.refresh_token,
     Scope |-> doc.scope, CreatedAt |-> doc.created_at]

\* transformInternalTokenResponse with expires_in taken for an instant
transformInternalTokenResponse_ExpiresInAsInstant(internal) ==
    LET createdAt == TimeUnix(internal.CreatedAt)
    IN  [AccessToken |-> internal.AccessToken,
         TokenType |-> internal.TokenType,
         RefreshToken |-> internal.RefreshToken,
         Scope |-> internal.Scope,
         CreatedAt |-> createdAt,
         ExpiresAt |-> TimeUnix(internal.ExpiresIn)]

transformInternalTokenResponse(internal) ==
    LET createdAt == TimeUnix(internal.CreatedAt)
    IN  [AccessToken |-> internal.AccessToken,
         TokenType |-> internal.TokenType,
         RefreshToken |-> internal.RefreshToken,
         Scope |-> internal.Scope,
         CreatedAt |-> createdAt,
         ExpiresAt |-> TimeAdd(createdAt, internal.ExpiresIn)]

transformInternalTokenResponseLegacy(internal) ==
    LET createdAt == TimeUnix(internal.CreatedAt)
    IN  [AccessToken |-> internal.AccessToken,
         TokenType |-> internal.TokenType,
         RefreshToken |-> internal.RefreshToken,
         Scope |-> internal.Scope,
         CreatedAt |-> createdAt,
         ExpiresAt |-> TimeAdd(createdAt, internal.ExpiresIn)]

---------------------------------------------------------------------------
(* What http.DefaultClient.Do can give *)

\* status codes the server may answer: every code of the switches, and two
\* codes (451, 502) that no switch lists
Statuses ==
    {200, 400, 401, 403, 404, 409, 410, 418, 429, 451,
     500, 502, 503, 504, 520, 521, 522}

Response(status, body) == [kind |-> "response", status |-> status, body |-> body]
DoError(err) == [kind |-> "error", err |-> err]

JsonBody(doc) == [kind |-> "json", doc |-> doc]
\* a body that is not the expected JSON
MalformedBody == [kind |-> "malformed"]
\* a body whose read fails half way
UnreadableBody == [kind |-> "unreadable"]
\* the body of a response other than 200; no function looks at it
ErrorBody == [kind |-> "errorpage"]

\* responses to POST /oauth/device/code
CodeResponses ==
    { Response(200, JsonBody(d)) : d \in CodeDocs }
    \cup { Response(200, MalformedBody), Response(200, UnreadableBody) }
    \cup { Response(s, ErrorBody) : s \in Statuses \ {200} }

\* responses to POST /oauth/device/token and POST /oauth/token
TokenResponses ==
    { Response(200, JsonBody(d)) : d \in TokenDocs }
    \cup { Response(200, MalformedBody), Response(200, UnreadableBody) }
    \cup { Response(s, ErrorBody) : s \in Statuses \ {200} }

---------------------------------------------------------------------------
(* API transport layer: one call, from the return of Do to the return of   *)
(* the function                                                            *)

\* a body that does not decode reported as a failure of the server
ReadAndDecodeError_AsServerError(op, body) ==
    IF body.kind = "unreadable" THEN Errorf(op, ErrRead)
    ELSE IF body.kind # "json" THEN ErrServerError
    ELSE Nil

\* the error, if any, of the part of the three functions after the status
\* switch: io.ReadAll, then json.Unmarshal
ReadAndDecodeError(op, body) ==
    IF body.kind = "unreadable" THEN Errorf(op, ErrRead)
    ELSE IF body.kind # "json" THEN Errorf(op, ErrDecode)
    ELSE Nil

GenerateNewCodeContext(out) ==
    LET fail(e) == [resp |-> ZeroCodeResponse, err |-> e]
    IN  IF out.kind = "error" THEN fail(Errorf("GenerateNewCode", out.err))
        ELSE IF out.status = 200
             THEN IF ReadAndDecodeError("GenerateNewCode", out.body) # Nil
                  THEN fail(ReadAndDecodeError("GenerateNewCode", out.body))
                  ELSE [resp |-> UnmarshalCodeResponse(out.body.doc), err |-> Nil]
        ELSE IF out.status = 403 THEN fail(ErrForbidden)
        ELSE IF out.status = 500 THEN fail(ErrServerError)
        ELSE IF out.status \in {503, 504} THEN fail(ErrServiceOverloaded)
        ELSE IF out.status \in {520, 521, 522} THEN fail(ErrCloudflareError)
        ELSE fail(UnexpectedStatus("RequestToken", out.status))

GenerateNewCodeContextLegacy(out) ==
    LET fail(e) == [resp |-> ZeroCodeResponse, err |-> e]
    IN  IF out.kind = "error" THEN fail(Errorf("GenerateNewCode", out.err))
        ELSE IF out.status = 200
             THEN IF ReadAndDecodeError("GenerateNewCode", out.body) # Nil
                  THEN fail(ReadAndDecodeError("GenerateNewCode", out.body))
                  ELSE [resp |-> UnmarshalCodeResponse(out.body.doc), err |-> Nil]
        ELSE IF out.status = 403 THEN fail(ErrForbidden)
        ELSE IF out.status = 500 THEN fail(ErrServerError)
        ELSE IF out.status \in {503, 504} THEN fail(ErrServiceOverloaded)
        ELSE IF out.status \in {520, 521, 522} THEN fail(ErrCloudflareError)
        ELSE fail(UnexpectedStatus("RequestToken", out.status))

DecodeToken(doc) ==
    transformInternalTokenResponse(UnmarshalInternalTokenResponse(doc))

DecodeTokenLegacy(doc) ==
    transformInternalTokenResponseLegacy(UnmarshalInternalTokenResponse(doc))

RequestTokenContext(out) ==
    LET fail(e) == [resp |-> ZeroTokenResponse, err |-> e]
    IN  IF out.kind = "error" THEN fail(Errorf("RequestToken", out.err))
        ELSE IF out.status = 200
             THEN IF ReadAndDecodeError("RequestToken", out.body) # Nil
                  THEN fail(ReadAndDecodeError("RequestToken", out.body))
                  ELSE [resp |-> DecodeToken(out.body.doc), err |-> Nil]
        ELSE IF out.status = 400 THEN fail(ErrDeviceCodeUnclaimed)
        ELSE IF out.status = 403 THEN fail(ErrForbidden)
        ELSE IF out.status = 404 THEN fail(ErrInvalidDeviceCode)
        ELSE IF out.status = 409 THEN fail(ErrDeviceCodeAlreadyApproved)
        ELSE IF out.status = 410 THEN fail(ErrDeviceCodeExpired)
        ELSE IF out.status = 418 THEN fail(ErrDeviceCodeDenied)
        ELSE IF out.status = 429 THEN fail(ErrPollRateTooFast)
        ELSE IF out.status = 500 THEN fail(ErrServerError)
        ELSE IF out.status \in {503, 504} THEN fail(ErrServiceOverloaded)
        ELSE IF out.status \in {520, 521, 522} THEN fail(ErrCloudflareError)
        ELSE fail(UnexpectedStatus("RequestToken", out.status))

\* the variant of src/traktdeviceauth.go has no case 403
RequestTokenContextLegacy(out) ==
    LET fail(e) == [resp |-> ZeroTokenResponse, err |-> e]
    IN  IF out.kind = "error" THEN fail(Errorf("RequestToken", out.err))
        ELSE IF out.status = 200
             THEN IF ReadAndDecodeError("RequestToken", out.body) # Nil
                  THEN fail(ReadAndDecodeError("RequestToken", out.body))
                  ELSE [resp |-> DecodeTokenLegacy(out.body.doc), err |-> Nil]
        ELSE IF out.status = 400 THEN fail(ErrDeviceCodeUnclaimed)
        ELSE IF out.status = 404 THEN fail(ErrInvalidDeviceCode)
        ELSE IF out.status = 409 THEN fail(ErrDeviceCodeAlreadyApproved)
        ELSE IF out.status = 410 THEN fail(ErrDeviceCodeExpired)
        ELSE IF out.status = 418 THEN fail(ErrDeviceCodeDenied)
        ELSE IF out.status = 429 THEN fail(ErrPollRateTooFast)
        ELSE IF out.status = 500 THEN fail(ErrServerError)
        ELSE IF out.status \in {503, 504} THEN fail(ErrServiceOverloaded)
        ELSE IF out.status \in {520, 521, 522} THEN fail(ErrCloudflareError)
        ELSE fail(UnexpectedStatus("RequestToken", out.status))

\* RefreshAccessTokenContext with the status switch of RequestTokenContext
RefreshAccessTokenContext_ExchangeSwitch(out) ==
    LET r == RequestTokenContext(out)
    IN  IF r.err.kind = "wrap"
        THEN [resp |-> r.resp, err |-> Errorf("RefreshToken", r.err.inner)]
        ELSE r

RefreshAccessTokenContext(out) ==
    LET fail(e) == [resp |-> ZeroTokenResponse, err |-> e]
    IN  IF out.kind = "error" THEN fail(Errorf("RefreshToken", out.err))
        ELSE IF out.status = 200
             THEN IF ReadAndDecodeError("RefreshToken", out.body) # Nil
                  THEN fail(ReadAndDecodeError("RefreshToken", out.body))
                  ELSE [resp |-> DecodeToken(out.body.doc), err |-> Nil]
        ELSE IF out.status = 401 THEN fail(ErrInvalidGrant)
        ELSE IF out.status = 403 THEN fail(ErrForbidden)
        ELSE IF out.status = 500 THEN fail(ErrServerError)
        ELSE IF out.status \in {503, 504} THEN fail(ErrServiceOverloaded)
        ELSE IF out.status \in {520, 521, 522} THEN fail(ErrCloudflareError)
        ELSE fail(UnexpectedStatus("RefreshToken", out.status))


\* response bodies a call leaves open when it returns after Do gave out.
\* GenerateNewCodeContext (both variants), RequestTokenContext and
\* RefreshAccessTokenContext of src/unnamed/part_001 defer resp.Body.Close()
\* as soon as Do has succeeded, so every return closes the body
BodiesLeftOpen(out) == 0

\* RequestTokenContext of src/traktdeviceauth.go closes the body in one place,
\* after ioutil.ReadAll; the returns of the status switch come before it
BodiesLeftOpenByRequestTokenLegacy(out) ==
    IF out.kind = "response" /\ out.status # 200 THEN 1 ELSE 0

\* the initial value of TraktAPIBaseUrl, and the staging server its comment
\* names
DefaultBaseUrl == "https://api.trakt.tv"
StagingBaseUrl == "https://api-staging.trakt.tv"

\* the URL RequestTokenContext posts to, given the value it read from
\* TraktAPIBaseUrl
RequestTokenUrl(base) == base \o "/oauth/device/token"

\* src/traktdeviceauth.go has the URL as a literal
RequestTokenUrlLegacy == "https://api.trakt.tv/oauth/device/token"

\* the client id and the client secret the caller passes to every call
ClientID == "client-id"
ClientSecret == "client-secret"

\* the fields of the JSON body RequestTokenContext posts
RequestTokenBody(cr, clientID, clientSecret) ==
    [code |-> cr.DeviceCode, client_id |-> clientID, client_secret |-> clientSecret]

RequestTokenBodyLegacy(cr, clientID, clientSecret) ==
    [code |-> cr.DeviceCode, client_id |-> clientID, client_secret |-> clientSecret]

\* no request has been made
NoBody == [code |-> "", client_id |-> "", client_secret |-> ""]

---------------------------------------------------------------------------
(* Poll orchestrator *)

\* the message of the error returned from the case <-ctx.Done()
ExceededContextMsg == "PollForAuthToken: could not retrieve auth token, exceeded context"

\* time.Now().Add(time.Second * time.Duration(codeResp.ExpiresIn))
PollDeadline(t, cr) == t + cr.ExpiresIn

PollDeadlineLegacy(t, cr) == t + cr.ExpiresIn

\* a timer whose wait is twice the grant's Interval
TimerAfter_Backoff(t, cr) == t + 2 * cr.Interval

\* the instant at which time.After(time.Second * time.Duration(codeResp.Interval)),
\* created at instant t, fires
TimerAfter(t, cr) == t + cr.Interval

TimerAfterLegacy(t, cr) == t + cr.Interval

\* body of the case <-time.After(...) once RequestTokenContext has returned r:
\* either the poll returns (resp, err) or the loop goes round again
PollAttemptResult(r) ==
    IF r.err = Nil
    THEN [return |-> TRUE, resp |-> r.resp, err |-> Nil]
    ELSE IF ~ErrorsIs(r.err, ErrDeviceCodeUnclaimed)
    THEN [return |-> TRUE, resp |-> ZeroTokenResponse,
          err |-> Errorf("PollForAuthToken", r.err)]
    ELSE [return |-> FALSE, resp |-> ZeroTokenResponse, err |-> Nil]

\* the variant of src/traktdeviceauth.go tests err != nil first
PollAttemptResultLegacy(r) ==
    IF r.err # Nil
    THEN [return |-> TRUE, resp |-> r.resp, err |-> Nil]
    ELSE IF ~ErrorsIs(r.err, ErrDeviceCodeUnclaimed)
    THEN [return |-> TRUE, resp |-> ZeroTokenResponse,
          err |-> Errorf("PollForAuthToken", r.err)]
    ELSE [return |-> FALSE, resp |-> ZeroTokenResponse, err |-> Nil]

\* the case <-ctx.Done() returning a record that is not the zero value
PollCtxDoneResult_PartialRecord ==
    [resp |-> [ZeroTokenResponse EXCEPT !.TokenType = "bearer"],
     err |-> Plain(ExceededContextMsg)]

\* body of the case <-ctx.Done()
PollCtxDoneResult == [resp |-> ZeroTokenResponse, err |-> Plain(ExceededContextMsg)]

PollCtxDoneResultLegacy == [resp |-> ZeroTokenResponse, err |-> Plain(ExceededContextMsg)]

---------------------------------------------------------------------------
(* The variant that runs *)

IsLegacy == version = "traktdeviceauth.go"

GenerateOf(out) ==
    IF IsLegacy THEN GenerateNewCodeContextLegacy(out) ELSE GenerateNewCodeContext(out)

RequestTokenOf(out) ==
    IF IsLegacy THEN RequestTokenContextLegacy(out) ELSE RequestTokenContext(out)

PollAttemptOf(r) ==
    IF IsLegacy THEN PollAttemptResultLegacy(r) ELSE PollAttemptResult(r)

PollCtxDoneOf ==
    IF IsLegacy THEN PollCtxDoneResultLegacy ELSE PollCtxDoneResult

PollDeadlineOf(t, cr) ==
    IF IsLegacy THEN PollDeadlineLegacy(t, cr) ELSE PollDeadline(t, cr)

TimerAfterOf(t, cr) ==
    IF IsLegacy THEN TimerAfterLegacy(t, cr) ELSE TimerAfter(t, cr)

BodiesLeftOpenByRequestTokenOf(out) ==
    IF IsLegacy THEN BodiesLeftOpenByRequestTokenLegacy(out)
    ELSE BodiesLeftOpen(out)

RequestTokenUrlOf(base) ==
    IF IsLegacy THEN RequestTokenUrlLegacy ELSE RequestTokenUrl(base)

RequestTokenBodyOf(cr, clientID, clientSecret) ==
    IF IsLegacy THEN RequestTokenBodyLegacy(cr, clientID, clientSecret)
    ELSE RequestTokenBody(cr, clientID, clientSecret)

---------------------------------------------------------------------------
(* Contexts and timers *)

\* deadlines the caller-supplied context may carry; has = FALSE is a context
\* without deadline, such as context.Background()
ParentDeadlines ==
    { [has |-> FALSE, at |-> 0] }
    \cup { [has |-> TRUE, at |-> t] : t \in 1..MaxParentDeadline }

\* the caller-supplied context is done
ParentDone == cancelled \/ (parentDeadline.has /\ now >= parentDeadline.at)

\* ctx.Done() had the poll passed the caller's context on as it is, without
\* context.WithDeadline
CtxDone_WithoutDeadline == ParentDone

\* ctx.Done() of the context made by context.WithDeadline(ctx, deadline) is
\* ready: the parent is done or the deadline has come
CtxDone == ParentDone \/ now >= deadline

\* a select that takes the case of the timer without the timer having fired
TimerReady_WithoutFiring == TRUE

\* the channel of the pending time.After is ready
TimerReady == now >= timerAt

\* the armed timers once time.After has made, at instant t, a timer that
\* fires at instant at: a timer whose duration is not positive fires at once
Arm(armed, at, t) == IF at > t THEN armed \cup {at} ELSE armed

\* the values a read of TraktAPIBaseUrl by the polling goroutine can give.
\* The variable is written by the caller's goroutine without
\* synchronisation, so once it has been written a read may observe the old
\* or the new value
BaseUrlReads == {DefaultBaseUrl, TraktAPIBaseUrl}

NoOutcome == [kind |-> "none"]
NoCodeResult == [resp |-> ZeroCodeResponse, err |-> Nil]
NoTokenResult == [resp |-> ZeroTokenResponse, err |-> Nil]

\* what Do gave the last attempt that has returned
LastOutcome == IF outcomes = << >> THEN NoOutcome ELSE outcomes[Len(outcomes)]

---------------------------------------------------------------------------
(* Actions *)

Init ==
    /\ version \in Versions
    /\ pc = "Start"
    /\ now = 0
    /\ cancelled = FALSE
    /\ parentDeadline \in ParentDeadlines
    /\ genOutcome = NoOutcome
    /\ genResult = NoCodeResult
    /\ codeResp = ZeroCodeResponse
    /\ entryTime = 0
    /\ deadline = 0
    /\ timerAt = 0
    /\ attempts = 0
    /\ outcomes = << >>
    /\ reqResult = NoTokenResult
    /\ pollExit = "none"
    /\ pollResult = NoTokenResult
    /\ refreshOutcome = NoOutcome
    /\ refreshResult = NoTokenResult
    /\ TraktAPIBaseUrl = DefaultBaseUrl
    /\ timersMade = 0
    /\ armedTimers = {}
    /\ requestAt = 0
    /\ requestUrl = ""
    /\ requestBody = NoBody
    /\ returnAt = 0
    /\ instantReplies = TRUE
    /\ openBodies = 0

\* the caller calls GenerateNewCode and Do gives out
GenerateNewCode(out) ==
    /\ pc = "Start"
    /\ genOutcome' = out
    /\ genResult' = GenerateOf(out)
    /\ pc' = IF genResult'.err = Nil THEN "Generated" ELSE "GenerateFailed"
    /\ openBodies' = openBodies + BodiesLeftOpen(out)
    /\ UNCHANGED << envVars, now, cancelled, entryVars, timerAt, attempts,
                    outcomes, reqResult, exitVars, refreshVars,
                    TraktAPIBaseUrl, logVars >>

\* the caller calls PollForAuthTokenContext with the grant it was given: the
\* deadline is computed and the first select is entered
PollForAuthToken ==
    /\ pc = "Generated"
    /\ codeResp' = genResult.resp
    /\ entryTime' = now
    /\ deadline' = PollDeadlineOf(now, codeResp')
    /\ timerAt' = TimerAfterOf(now, codeResp')
    /\ attempts' = 0
    /\ timersMade' = 1
    /\ armedTimers' = Arm({}, timerAt', now)
    /\ pc' = "Waiting"
    /\ UNCHANGED << envVars, now, cancelled, genVars, outcomes, reqResult,
                    exitVars, refreshVars, TraktAPIBaseUrl, requestAt,
                    requestUrl, requestBody, returnAt, instantReplies,
                    openBodies >>

\* select takes the case <-time.After(...): RequestTokenContext is called,
\* builds its request from the value it reads from TraktAPIBaseUrl and blocks
\* in http.DefaultClient.Do
SelectTimer ==
    /\ pc = "Waiting"
    /\ TimerReady
    /\ attempts < MaxAttempts
    /\ attempts' = attempts + 1
    /\ requestAt' = now
    /\ \E base \in BaseUrlReads : requestUrl' = RequestTokenUrlOf(base)
    /\ requestBody' = RequestTokenBodyOf(codeResp, ClientID, ClientSecret)
    /\ pc' = "Attempting"
    /\ UNCHANGED << envVars, now, cancelled, genVars, entryVars, timerAt,
                    outcomes, reqResult, exitVars, refreshVars,
                    TraktAPIBaseUrl, timersMade, armedTimers, returnAt,
                    instantReplies, openBodies >>

\* what Do can give the pending attempt: once the request's context is done
\* Do fails with the context's error; before that the server answers or the
\* network fails
AttemptOutcomes ==
    IF CtxDone
    THEN { DoError(ErrContext) }
    ELSE TokenResponses \cup { DoError(ErrNetwork) }

\* Do returns out; RequestTokenContext classifies it and returns; the poll
\* returns or goes back to select with a new timer
AttemptReturn(out) ==
    /\ pc = "Attempting"
    /\ out \in AttemptOutcomes
    /\ outcomes' = Append(outcomes, out)
    /\ returnAt' = now
    /\ instantReplies' = (instantReplies /\ now = requestAt)
    /\ reqResult' = RequestTokenOf(out)
    /\ openBodies' = openBodies + BodiesLeftOpenByRequestTokenOf(out)
    /\ LET d == PollAttemptOf(reqResult')
       IN  IF d.return
           THEN /\ pc' = "PollDone"
                /\ pollExit' = "timer"
                /\ pollResult' = [resp |-> d.resp, err |-> d.err]
                /\ UNCHANGED << timerAt, timersMade, armedTimers >>
           ELSE /\ pc' = "Waiting"
                /\ timerAt' = TimerAfterOf(now, codeResp)
                /\ timersMade' = timersMade + 1
                /\ armedTimers' = Arm(armedTimers, timerAt', now)
                /\ UNCHANGED exitVars
    /\ UNCHANGED << envVars, now, cancelled, genVars, entryVars, attempts,
                    refreshVars, TraktAPIBaseUrl, requestAt, requestUrl,
                    requestBody >>

\* select takes the case <-ctx.Done()
SelectDone ==
    /\ pc = "Waiting"
    /\ CtxDone
    /\ pc' = "PollDone"
    /\ pollExit' = "ctx"
    /\ pollResult' = PollCtxDoneOf
    /\ UNCHANGED << envVars, now, cancelled, genVars, entryVars, timerAt,
                    attempts, outcomes, reqResult, refreshVars,
                    TraktAPIBaseUrl, logVars, openBodies >>

\* the caller cancels the context it supplied
Cancel ==
    /\ pc \in {"Generated", "Waiting", "Attempting"}
    /\ ~cancelled
    /\ cancelled' = TRUE
    /\ UNCHANGED << envVars, pc, now, genVars, entryVars, timerAt, attempts,
                    outcomes, reqResult, exitVars, refreshVars,
                    TraktAPIBaseUrl, logVars, openBodies >>

\* another goroutine of the caller points the package at the staging server
\* while the poll runs (src/unnamed/part_001 only: src/traktdeviceauth.go has
\* no such variable)
SetTraktAPIBaseUrl ==
    /\ pc \in {"Waiting", "Attempting"}
    /\ ~IsLegacy
    /\ TraktAPIBaseUrl = DefaultBaseUrl
    /\ TraktAPIBaseUrl' = StagingBaseUrl
    /\ UNCHANGED << envVars, pc, now, cancelled, genVars, entryVars, timerAt,
                    attempts, outcomes, reqResult, exitVars, refreshVars,
                    logVars, openBodies >>

\* a second passes; the caller enters the poll by MaxEntry, and a goroutine
\* with a ready event runs first.  A poll that has made MaxAttempts attempts
\* makes no more of them and is left to its deadline
Tick ==
    /\ now < MaxTime
    /\ \/ pc = "Generated" /\ now < MaxEntry
       \/ pc = "Waiting" /\ ~CtxDone
             /\ (~TimerReady \/ attempts >= MaxAttempts)
       \/ pc = "Attempting" /\ ~CtxDone
    /\ now' = now + 1
    /\ armedTimers' = { t \in armedTimers : t > now' }
    /\ UNCHANGED << envVars, pc, cancelled, genVars, entryVars, timerAt,
                    attempts, outcomes, reqResult, exitVars, refreshVars,
                    TraktAPIBaseUrl, timersMade, requestAt, requestUrl,
                    requestBody, returnAt, instantReplies, openBodies >>

\* the caller refreshes the token the poll gave it (src/unnamed/part_001 only)
RefreshAccessToken(out) ==
    /\ pc = "PollDone"
    /\ ~IsLegacy
    /\ pollResult.err = Nil
    /\ refreshOutcome' = out
    /\ refreshResult' = RefreshAccessTokenContext(out)
    /\ pc' = "Refreshed"
    /\ openBodies' = openBodies + BodiesLeftOpen(out)
    /\ UNCHANGED << envVars, now, cancelled, genVars, entryVars, timerAt,
                    attempts, outcomes, reqResult, exitVars, TraktAPIBaseUrl,
                    logVars >>

Next ==
    \/ \E out \in CodeResponses \cup { DoError(ErrNetwork) } : GenerateNewCode(out)
    \/ PollForAuthToken
    \/ SelectTimer
    \/ \E out \in TokenResponses \cup { DoError(ErrNetwork), DoError(ErrContext) } :
          AttemptReturn(out)
    \/ SelectDone
    \/ Cancel
    \/ SetTraktAPIBaseUrl
    \/ Tick
    \/ \E out \in TokenResponses \cup { DoError(ErrNetwork) } : RefreshAccessToken(out)

Spec == Init /\ [][Next]_vars

\* What the Go runtime guarantees of the scheduling: the clock advances, a
\* goroutine blocked in select runs once a case is ready, and Do returns once
\* the context of its request is done.  Nothing is assumed of the server: it
\* may answer any attempt or leave it unanswered for ever, and the caller need
\* never cancel.
Fairness ==
    /\ WF_vars(Tick)
    /\ WF_vars(SelectTimer)
    /\ WF_vars(SelectDone)
    /\ WF_vars(AttemptReturn(DoError(ErrContext)))

LiveSpec == Init /\ [][Next]_vars /\ Fairness

\* the poll has returned
PollReturned == pc \in {"PollDone", "Refreshed"}

---------------------------------------------------------------------------
(* Vocabulary of the properties *)

\* Do gave a response with status s
Answered(out, s) == out.kind = "response" /\ out.status = s

\* Do gave status 200 with a body that reads and decodes
SuccessfulAttempt(out) == Answered(out, 200) /\ out.body.kind = "json"

\* Do failed (transport error), or gave status 200 with a body that does not
\* read or does not decode
TransportOrDecodeFailure(out) ==
    \/ out.kind = "error"
    \/ Answered(out, 200) /\ out.body.kind \in {"malformed", "unreadable"}

\* the standard-library error behind a transport or decode failure
FailureCause(out) ==
    IF out.kind = "error" THEN out.err
    ELSE IF out.body.kind = "unreadable" THEN ErrRead ELSE ErrDecode

\* the status table of the specification, column "exchange"
ExchangeCodes == {400, 403, 404, 409, 410, 418, 429, 500, 503, 504, 520, 521, 522}

\* the codes of the table that end a poll
TerminalCodes == ExchangeCodes \ {400}

\* the status table of the specification, column "all"
CommonCodes == {403, 500, 503, 504, 520, 521, 522}

\* the status table of the specification: the classification of a listed code
TableClassification(s) ==
    CASE s = 400 -> ErrDeviceCodeUnclaimed
      [] s = 401 -> ErrInvalidGrant
      [] s = 403 -> ErrForbidden
      [] s = 404 -> ErrInvalidDeviceCode
      [] s = 409 -> ErrDeviceCodeAlreadyApproved
      [] s = 410 -> ErrDeviceCodeExpired
      [] s = 418 -> ErrDeviceCodeDenied
      [] s = 429 -> ErrPollRateTooFast
      [] s = 500 -> ErrServerError
      [] s \in {503, 504} -> ErrServiceOverloaded
      [] s \in {520, 521, 522} -> ErrCloudflareError

\* err is the generic "unexpected status" error carrying code s; it matches
\* no named classification
IsUnexpectedStatus(err, s) ==
    /\ err.kind = "unexpected"
    /\ err.code = s
    /\ \A e \in NamedErrors : ~ErrorsIs(err, e)

\* (resp, err) is what the table prescribes for the answer out of an
\* operation that recognises the listed codes `codes`
FollowsTable(res, out, codes, zero) ==
    Answered(out, out.status) =>
        IF out.status = 200
        THEN out.body.kind = "json" => res.err = Nil
        ELSE /\ res.resp = zero
             /\ IF out.status \in codes
                THEN res.err = TableClassification(out.status)
                ELSE IsUnexpectedStatus(res.err, out.status)

\* the error of the case <-ctx.Done(): the DeadlineExceeded outcome
IsExceededContext(res) ==
    res = [resp |-> ZeroTokenResponse, err |-> Plain(ExceededContextMsg)]

\* the poll has been entered
PollEntered == pc \in {"Waiting", "Attempting", "PollDone", "Refreshed"}

\* the grant the poll acts on satisfies the invariant of the data model
ValidGrant == codeResp.ExpiresIn > 0 /\ codeResp.Interval > 0

\* the step is the return of an exchange attempt
AttemptReturns == pc = "Attempting" /\ pc' # "Attempting"

---------------------------------------------------------------------------
(* C1 *)

\* C1: whenever an exchange attempt succeeds (status 200, decodable body) the
\* poll has returned from that attempt with the attempt's token and a nil
\* error; no later attempt is pending or made.  Stated for valid grants.
C1_SuccessEndsPoll ==
    (ValidGrant /\ SuccessfulAttempt(LastOutcome)) =>
        /\ PollReturned
        /\ pollExit = "timer"
        /\ attempts = Len(outcomes)
        /\ pollResult.err = Nil
        /\ pollResult.resp = reqResult.resp
        /\ pollResult.resp.AccessToken = LastOutcome.body.doc.access_token

\* C1 restricted to the variant of src/unnamed/part_001
C1_SuccessEndsPoll_part001 == ~IsLegacy => C1_SuccessEndsPoll

---------------------------------------------------------------------------
(* C2 *)

\* C2: when the first exchange attempt is answered with a code of
\* {403,404,409,410,418,429,500,503,504,520,521,522} the poll has returned
\* right after it (exactly one attempt) with a non-nil error that matches,
\* by errors.Is, the classification of that code.  Stated for valid grants.
C2_TerminalCodeEndsPoll ==
    (ValidGrant /\ Len(outcomes) >= 1 /\ outcomes[1].kind = "response"
        /\ outcomes[1].status \in TerminalCodes) =>
        /\ PollReturned
        /\ attempts = 1
        /\ pollResult.err # Nil
        /\ ErrorsIs(pollResult.err, TableClassification(outcomes[1].status))

\* C2 restricted to the variant of src/unnamed/part_001
C2_TerminalCodeEndsPoll_part001 == ~IsLegacy => C2_TerminalCodeEndsPoll

---------------------------------------------------------------------------
(* C3 *)

\* C3: an exchange attempt answered 400 ("not yet claimed") does not end the
\* poll: the step that returns it leads back to Waiting with the interval
\* timer re-armed, and the deadline stays entry time + ExpiresIn.  Stated for
\* valid grants.
C3_UnclaimedRetries ==
    [][ (ValidGrant /\ AttemptReturns /\ Answered(LastOutcome', 400)) =>
            /\ pc' = "Waiting"
            /\ timerAt' = now + codeResp.Interval
            /\ deadline' = deadline
            /\ deadline' = entryTime + codeResp.ExpiresIn ]_vars

\* C3 restricted to the variant of src/unnamed/part_001
C3_UnclaimedRetries_part001 ==
    [][ (~IsLegacy /\ AttemptReturns /\ Answered(LastOutcome', 400)) =>
            /\ pc' = "Waiting"
            /\ timerAt' = now + codeResp.Interval
            /\ deadline' = deadline
            /\ deadline' = entryTime + codeResp.ExpiresIn ]_vars

---------------------------------------------------------------------------
(* C4 *)

\* every attempt so far was answered 400 or was cut off by the context
OnlyUnclaimedAnswers ==
    \A i \in 1..Len(outcomes) :
        Answered(outcomes[i], 400) \/ outcomes[i] = DoError(ErrContext)

\* C4: if every exchange attempt answers 400 until the deadline (and the
\* caller's context is not done), the poll ends with the DeadlineExceeded
\* outcome and never with an error wrapping a transport or classified error,
\* also when the deadline comes while an attempt is in flight or at the
\* instant the timer fires.  Stated for valid grants.
C4_UnclaimedEndsDeadlineExceeded ==
    (ValidGrant /\ PollReturned /\ ~ParentDone /\ OnlyUnclaimedAnswers) =>
        /\ pollExit = "ctx"
        /\ IsExceededContext(pollResult)
        /\ pollResult.err.kind # "wrap"

\* C4, its second clause alone, restricted to src/unnamed/part_001: no Fatal
\* error wrapping a transport error
C4_NeverFatal_part001 ==
    (~IsLegacy /\ ValidGrant /\ PollReturned /\ ~ParentDone
        /\ OnlyUnclaimedAnswers) =>
        pollResult.err.kind # "wrap"

---------------------------------------------------------------------------
(* C5 *)

\* C5: a poll that has returned gives exactly one of: the last attempt's
\* token with a nil error; a zero token with an error wrapping the last
\* attempt's error; the deadline-exceeded error.  It never gives the zero
\* token with a nil error, nor a token together with an error.  Stated for
\* valid grants.
C5_ExactlyOneResult ==
    (ValidGrant /\ PollReturned) =>
        /\ \/ /\ pollExit = "timer"
              /\ reqResult.err = Nil
              /\ pollResult = [resp |-> reqResult.resp, err |-> Nil]
           \/ /\ pollExit = "timer"
              /\ reqResult.err # Nil
              /\ pollResult = [resp |-> ZeroTokenResponse,
                               err |-> Errorf("PollForAuthToken", reqResult.err)]
           \/ /\ pollExit = "ctx"
              /\ IsExceededContext(pollResult)
        /\ ~(pollResult.resp = ZeroTokenResponse /\ pollResult.err = Nil)
        /\ ~(pollResult.resp # ZeroTokenResponse /\ pollResult.err # Nil)

\* C5 restricted to the variant of src/unnamed/part_001
C5_ExactlyOneResult_part001 == ~IsLegacy => C5_ExactlyOneResult


---------------------------------------------------------------------------
(* C6 *)

\* the poll waits in select, the caller has cancelled, and nothing else is
\* ready: neither the timer nor a deadline
CancelledWhileWaiting ==
    /\ pc = "Waiting"
    /\ cancelled
    /\ ~TimerReady
    /\ now < deadline
    /\ ~(parentDeadline.has /\ now >= parentDeadline.at)

\* the error a poll returns when the ExpiresIn deadline elapses while it waits
\* is the "exceeded context" error
C6_DeadlineGivesExceededContext ==
    (PollReturned /\ pollExit = "ctx" /\ ~cancelled /\ now >= deadline) =>
        pollResult.err = Plain(ExceededContextMsg)

\* C6: when the caller's context is cancelled while the poll is Waiting, the
\* poll exits without starting another exchange attempt, and the error it
\* returns differs from the one returned when the ExpiresIn deadline elapses.
C6_CancelReportedDistinctly ==
    [][ (ValidGrant /\ CancelledWhileWaiting) =>
            /\ attempts' = attempts
            /\ pc' \in {"Waiting", "PollDone"}
            /\ (pc' = "PollDone" => pollResult'.err # Plain(ExceededContextMsg)) ]_vars

\* C6 without its last clause: a cancellation seen while Waiting ends the
\* poll without a further attempt
C6_CancelEndsPoll ==
    [][ CancelledWhileWaiting =>
            /\ attempts' = attempts
            /\ pc' \in {"Waiting", "PollDone"}
            /\ (pc' = "PollDone" => pollExit' = "ctx") ]_vars

---------------------------------------------------------------------------
(* C7 *)

\* every attempt before the last was answered 400
UnclaimedBeforeLast ==
    \A i \in 1..(Len(outcomes) - 1) : Answered(outcomes[i], 400)

\* C7: for a grant with ExpiresIn > 0 and Interval > 0, a run in which the
\* server answers 400 some number of times and then 200 ends in Succeeded
\* (once: the poll returns the token with a nil error), and the number of
\* exchange attempts never exceeds ExpiresIn/Interval + 1.
C7_UnclaimedThenSuccess ==
    (PollEntered /\ ValidGrant) =>
        /\ attempts <= (codeResp.ExpiresIn \div codeResp.Interval) + 1
        /\ (SuccessfulAttempt(LastOutcome) /\ UnclaimedBeforeLast) =>
              /\ PollReturned
              /\ pollExit = "timer"
              /\ pollResult = [resp |-> reqResult.resp, err |-> Nil]

\* C7 restricted to the variant of src/unnamed/part_001
C7_UnclaimedThenSuccess_part001 == ~IsLegacy => C7_UnclaimedThenSuccess

\* C7, its bound on the attempts alone
C7_AttemptsBounded ==
    (PollEntered /\ ValidGrant) =>
        attempts <= (codeResp.ExpiresIn \div codeResp.Interval) + 1

---------------------------------------------------------------------------
(* C8 *)

\* C8: RequestTokenContext maps each response status to the outcome of the
\* table: 200 success, 400 ... 522 the named classification, every other
\* code the generic unexpected-status error carrying the code, which
\* matches no named classification.
C8_RequestTokenFollowsTable ==
    /\ FollowsTable(reqResult, LastOutcome, ExchangeCodes, ZeroTokenResponse)
    /\ SuccessfulAttempt(LastOutcome) =>
          reqResult.resp.AccessToken = LastOutcome.body.doc.access_token

\* C8 restricted to the variant of src/unnamed/part_001
C8_RequestTokenFollowsTable_part001 == ~IsLegacy => C8_RequestTokenFollowsTable

---------------------------------------------------------------------------
(* C9 *)

\* C9: GenerateNewCodeContext and RefreshAccessTokenContext classify statuses
\* per the table: 200 success, 403, 500, 503/504, 520/521/522 the named
\* classification, 401 ErrInvalidGrant for refresh only; the exchange-only
\* codes 400, 404, 409, 410, 418, 429 and every other code give the generic
\* unexpected-status error carrying the code.
C9_GenerateAndRefreshFollowTable ==
    /\ FollowsTable(genResult, genOutcome, CommonCodes, ZeroCodeResponse)
    /\ SuccessfulAttempt(genOutcome) =>
          /\ genResult.resp.DeviceCode = genOutcome.body.doc.device_code
          /\ genResult.resp.ExpiresIn = genOutcome.body.doc.expires_in
          /\ genResult.resp.Interval = genOutcome.body.doc.interval
    /\ FollowsTable(refreshResult, refreshOutcome, CommonCodes \cup {401},
                    ZeroTokenResponse)
    /\ SuccessfulAttempt(refreshOutcome) =>
          refreshResult.resp.AccessToken = refreshOutcome.body.doc.access_token

\* a refresh was answered 401 and classified ErrInvalidGrant, after a
\* device-code request that was answered 200
C9_Witness ==
    /\ Answered(genOutcome, 200)
    /\ Answered(refreshOutcome, 401)
    /\ refreshResult.err = ErrInvalidGrant

---------------------------------------------------------------------------
(* C10 *)

\* C10: a transport error or a decode error from an exchange attempt is not
\* retried: it is the last attempt, and the poll has returned right after
\* it with a non-nil error wrapping it.  Stated for valid grants.
C10_FailureNotRetried ==
    ValidGrant =>
        \A i \in 1..Len(outcomes) :
            TransportOrDecodeFailure(outcomes[i]) =>
                /\ i = Len(outcomes)
                /\ attempts = i
                /\ PollReturned
                /\ pollExit = "timer"
                /\ pollResult.err # Nil
                /\ ErrorsIs(pollResult.err, FailureCause(outcomes[i]))

\* C10 restricted to the variant of src/unnamed/part_001
C10_FailureNotRetried_part001 == ~IsLegacy => C10_FailureNotRetried

---------------------------------------------------------------------------
(* C11 *)

\* tok is the token the specification asks for the payload doc: the four
\* strings copied, CreatedAt the instant created_at seconds after the epoch,
\* ExpiresAt exactly expires_in seconds after CreatedAt
TransformedFrom(tok, doc) ==
    /\ tok.AccessToken = doc.access_token
    /\ tok.TokenType = doc.token_type
    /\ tok.RefreshToken = doc.refresh_token
    /\ tok.Scope = doc.scope
    /\ tok.CreatedAt = [zero |-> FALSE, unix |-> doc.created_at]
    /\ ~tok.ExpiresAt.zero
    /\ tok.ExpiresAt.unix - tok.CreatedAt.unix = doc.expires_in

---------------------------------------------------------------------------
(* C12 *)

\* the poll has been entered and has not returned
PollRunning == pc \in {"Waiting", "Attempting"}

\* C12: every call of PollForAuthTokenContext eventually returns, whatever
\* the server does: waiting and in-flight attempts are both ended by the
\* deadline entry time + ExpiresIn or by the caller's context (both variants,
\* under LiveSpec).
C12_PollEventuallyReturns == PollRunning ~> PollReturned

\* the server answered "not yet claimed" and then left an attempt unanswered;
\* the caller did not cancel; the deadline aborted the attempt in flight and
\* the poll returned
C12_Witness ==
    /\ PollReturned
    /\ ValidGrant
    /\ ~ParentDone
    /\ now >= deadline
    /\ Len(outcomes) >= 2
    /\ Answered(outcomes[1], 400)
    /\ LastOutcome = DoError(ErrContext)

---------------------------------------------------------------------------
(* C13 *)

\* C13: each of GenerateNewCodeContext, RequestTokenContext and
\* RefreshAccessTokenContext closes the response body it obtained on every
\* exit path, so that once a call has returned no body it obtained is open;
\* and a body is decoded only when the status is 200: every other outcome
\* gives the zero value.  Stated for valid grants.
C13_BodiesClosed ==
    ValidGrant =>
        /\ openBodies = 0
        /\ genResult.resp # ZeroCodeResponse => Answered(genOutcome, 200)
        /\ reqResult.resp # ZeroTokenResponse => Answered(LastOutcome, 200)
        /\ refreshResult.resp # ZeroTokenResponse => Answered(refreshOutcome, 200)

\* C13 restricted to the variant of src/unnamed/part_001
C13_BodiesClosed_part001 == ~IsLegacy => C13_BodiesClosed

---------------------------------------------------------------------------
(* C14 *)

\* C14: once the deadline has elapsed or the caller has cancelled, the poll
\* starts no exchange attempt: when select is entered with ctx.Done() ready
\* (the interval timer being ready as well or not), the case of the timer is
\* not taken.  Stated for valid grants.
C14_NoAttemptAfterDone ==
    [][(pc = "Waiting" /\ CtxDone /\ ValidGrant) => pc' # "Attempting"]_vars

\* when only ctx.Done() is ready the poll starts no attempt and, if it
\* returns, returns the error of the case <-ctx.Done() (both variants)
C14_DoneAloneExits ==
    [][(pc = "Waiting" /\ CtxDone /\ ~TimerReady /\ pc' # pc) =>
          (pc' = "PollDone" /\ pollExit' = "ctx" /\ IsExceededContext(pollResult'))]_vars

---------------------------------------------------------------------------
(* C15 *)

\* exchange attempts in flight: started and not returned
InFlight == attempts - Len(outcomes)

\* C15: within one poll at most one exchange attempt is made per firing of
\* an interval timer, attempts never overlap (a new one starts only after
\* the previous one has returned), and at most one HTTP call and one armed
\* interval timer are outstanding at any time: an attempt is in flight
\* exactly while the poll is inside RequestTokenContext, it consumed the
\* firing of the latest timer, and no timer is armed meanwhile (both
\* variants).
C15_OneAttemptPerFiring ==
    /\ InFlight \in {0, 1}
    /\ InFlight = 1 <=> pc = "Attempting"
    /\ Cardinality(armedTimers) <= 1
    /\ attempts <= timersMade
    /\ pc = "Attempting" =>
          /\ attempts = timersMade
          /\ armedTimers = {}
          /\ timerAt <= requestAt
          /\ attempts >= 2 => returnAt <= requestAt
    /\ pc = "Waiting" => timersMade = attempts + 1

\* two attempts have been made, one after the other, and the poll waits for
\* its third timer, the only one armed
C15_Witness ==
    /\ pc = "Waiting"
    /\ attempts = 2
    /\ Len(outcomes) = 2
    /\ timersMade = 3
    /\ Cardinality(armedTimers) = 1

---------------------------------------------------------------------------
(* C16 *)

\* the replies so far are the beginning of the scenario of the claim:
\* 400, 400, then 200 with a token, each given at the instant of its request
RepliesOfScenario ==
    /\ instantReplies
    /\ Len(outcomes) \in 1..3
    /\ \A i \in 1..Len(outcomes) :
          IF i < 3 THEN Answered(outcomes[i], 400)
          ELSE SuccessfulAttempt(outcomes[i])

\* the first attempt is not made before Interval seconds after entry, and
\* every later one not before Interval seconds after the previous attempt
\* returned; with instantaneous replies the n-th attempt is made at
\* entry + n * Interval (both variants)
C16_Spacing ==
    ValidGrant =>
        /\ pc = "Waiting" /\ attempts = 0 => outcomes = << >>
        /\ pc = "Attempting" =>
              /\ attempts = 1 => requestAt >= entryTime + codeResp.Interval
              /\ attempts >= 2 => requestAt >= returnAt + codeResp.Interval
              /\ instantReplies =>
                    requestAt = entryTime + attempts * codeResp.Interval

\* C16: the poll starts in Waiting, its first attempt is made no earlier
\* than Interval seconds after entry and every later attempt no earlier than
\* Interval seconds after the previous one returned; so with instantaneous
\* replies 400, 400, 200 a poll that returns from an attempt has made exactly
\* 3 attempts, the third at entry + 3 * Interval, and returns its token.
C16_SpacingAndScenario ==
    /\ C16_Spacing
    /\ (ValidGrant /\ PollReturned /\ pollExit = "timer" /\ RepliesOfScenario) =>
          /\ Len(outcomes) = 3
          /\ attempts = 3
          /\ requestAt = entryTime + 3 * codeResp.Interval
          /\ pollResult = [resp |-> reqResult.resp, err |-> Nil]
          /\ pollResult.resp # ZeroTokenResponse

\* C16 restricted to the variant of src/unnamed/part_001
C16_SpacingAndScenario_part001 == ~IsLegacy => C16_SpacingAndScenario

\* the scenario has run to its end: replies 400, 400, 200 and the token
\* returned after the third attempt
C16_ScenarioCompleted ==
    /\ ValidGrant
    /\ PollReturned
    /\ RepliesOfScenario
    /\ Len(outcomes) = 3
    /\ pollResult.err = Nil

---------------------------------------------------------------------------
(* C17 *)

\* tok.ExpiresAt.After(tok.CreatedAt)
ExpiresAfterCreated(tok) == tok.ExpiresAt.unix > tok.CreatedAt.unix

\* the poll has returned a token
PollGaveToken ==
    PollReturned /\ pollResult.err = Nil /\ pollResult.resp # ZeroTokenResponse

---------------------------------------------------------------------------
(* C18 *)

\* GenerateNewCodeContext has returned a CodeResponse with a nil error
GenerateGaveGrant == pc # "Start" /\ genResult.err = Nil

\* C18 as stated: every CodeResponse that GenerateNewCodeContext returns
\* with a nil error, and every CodeResponse the poll acts on, has
\* ExpiresIn > 0 and Interval > 0.
C18_GrantFieldsPositive ==
    /\ GenerateGaveGrant =>
          genResult.resp.ExpiresIn > 0 /\ genResult.resp.Interval > 0
    /\ PollEntered => ValidGrant

\* C18 amended: a CodeResponse returned with a nil error carries expires_in
\* and interval as the server sent them, so each is positive exactly when the
\* server's value is; the poll checks neither and computes its deadline and
\* its first timer from the values it is given (both variants).
C18_GrantFieldsAsSent ==
    /\ GenerateGaveGrant =>
          /\ SuccessfulAttempt(genOutcome)
          /\ genResult.resp.ExpiresIn = genOutcome.body.doc.expires_in
          /\ genResult.resp.Interval = genOutcome.body.doc.interval
          /\ genResult.resp.ExpiresIn > 0 <=> genOutcome.body.doc.expires_in > 0
          /\ genResult.resp.Interval > 0 <=> genOutcome.body.doc.interval > 0
    /\ PollEntered =>
          /\ codeResp = genResult.resp
          /\ deadline = entryTime + codeResp.ExpiresIn
          /\ timersMade = 1 => timerAt = entryTime + codeResp.Interval

\* GenerateNewCodeContext returned a grant with positive ExpiresIn and
\* Interval, and the poll has made an attempt with it
C18_Witness ==
    /\ GenerateGaveGrant
    /\ PollEntered
    /\ ValidGrant
    /\ attempts >= 1

---------------------------------------------------------------------------
(* C19 *)

\* C19: a running poll shares no mutable state with anything that runs
\* concurrently with it, so its attempts are the same under every
\* interleaving, writes to the package-level variable TraktAPIBaseUrl
\* included: every attempt posts to the token endpoint of the base URL that
\* was in force when the poll was entered.  Stated for valid grants.
C19_AttemptsIgnoreGlobalWrites ==
    (ValidGrant /\ PollEntered /\ attempts >= 1) =>
        requestUrl = RequestTokenUrl(DefaultBaseUrl)

\* C19 restricted to the variant of src/traktdeviceauth.go, which has the URL
\* as a literal
C19_AttemptsIgnoreGlobalWrites_Legacy == IsLegacy => C19_AttemptsIgnoreGlobalWrites

\* no step of the poll writes TraktAPIBaseUrl: only the caller does
C19_PollWritesNoGlobal ==
    [][TraktAPIBaseUrl' # TraktAPIBaseUrl => (pc' = pc /\ attempts' = attempts)]_vars

---------------------------------------------------------------------------
(* C20 *)

\* res, returned by a transport operation to which Do gave out, keeps
\* failures apart from classified outcomes
FailureKeptApart(out, res) ==
    /\ TransportOrDecodeFailure(out) =>
          /\ res.err # Nil
          /\ ErrorsIs(res.err, FailureCause(out))
          /\ \A e \in NamedErrors : ~ErrorsIs(res.err, e)
    /\ \A e \in NamedErrors :
          ErrorsIs(res.err, e) =>
              /\ out.kind = "response"
              /\ out.status \in ExchangeCodes \cup {401}
              /\ TableClassification(out.status) = e

\* C20: in GenerateNewCodeContext, RequestTokenContext and
\* RefreshAccessTokenContext a network failure and a malformed 200 body each
\* give a non-nil error that matches (errors.Is) none of the named Err*
\* classifications, and a classified error is returned only when a response
\* with the status of that classification was received (both variants).
C20_FailuresDistinctFromClassified ==
    /\ FailureKeptApart(genOutcome, genResult)
    /\ FailureKeptApart(LastOutcome, reqResult)
    /\ FailureKeptApart(refreshOutcome, refreshResult)

\* the poll gave a token and the refresh was answered 200 with a body that
\* does not decode: the error returned wraps the decode error and matches no
\* named classification
C20_Witness ==
    /\ PollGaveToken
    /\ refreshOutcome = Response(200, MalformedBody)
    /\ refreshResult.err # Nil
    /\ ErrorsIs(refreshResult.err, ErrDecode)
    /\ \A e \in NamedErrors : ~ErrorsIs(refreshResult.err, e)

---------------------------------------------------------------------------
(* C21 *)

\* the earlier of the caller context's own deadline and entry + ExpiresIn
EffectiveDeadline ==
    IF parentDeadline.has /\ parentDeadline.at < entryTime + codeResp.ExpiresIn
    THEN parentDeadline.at
    ELSE entryTime + codeResp.ExpiresIn

\* the context of the poll is done from the effective deadline on (or from
\* the caller's cancellation), the poll does not wait past it, and an attempt
\* that returns at or after it was aborted by the context it was issued under
\* (both variants)
C21_DeadlineIsTheEarlier ==
    PollEntered =>
        /\ PollRunning => (CtxDone <=> (cancelled \/ now >= EffectiveDeadline))
        /\ (PollRunning /\ now > entryTime) => now <= EffectiveDeadline
        /\ (Len(outcomes) >= 1 /\ returnAt >= EffectiveDeadline) =>
              LastOutcome = DoError(ErrContext)

\* C21: the effective deadline of the poll is the earlier of the caller
\* context's deadline and entry + ExpiresIn: the context is done from then
\* on, the poll neither waits nor starts an exchange attempt once it has
\* come, and every attempt is issued under that context.  Stated for valid
\* grants.
C21_NothingBeyondEffectiveDeadline ==
    [][(ValidGrant /\ PollRunning) =>
          /\ C21_DeadlineIsTheEarlier
          /\ now >= EffectiveDeadline => (now' = now /\ attempts' = attempts)]_vars

---------------------------------------------------------------------------
(* C22 *)

\* the wait of the timer made last: from entry for the first timer, from the
\* return of the last attempt for a later one
LastWait == timerAt - (IF timersMade = 1 THEN entryTime ELSE returnAt)

\* C22: the poll never modifies the grant it was given: DeviceCode,
\* ExpiresIn and Interval are those of the caller's CodeResponse during the
\* whole poll, every exchange attempt sends that DeviceCode with the
\* caller's client id and client secret, and every interval wait is the
\* grant's Interval, with no backoff (both variants).
C22_GrantUnchanged ==
    PollEntered =>
        /\ codeResp = genResult.resp
        /\ deadline = entryTime + genResult.resp.ExpiresIn
        /\ attempts >= 1 =>
              requestBody = [code |-> genResult.resp.DeviceCode,
                             client_id |-> ClientID,
                             client_secret |-> ClientSecret]
        /\ timersMade = Len(outcomes) + 1 => LastWait = genResult.resp.Interval

\* no step taken after entry writes the grant (both variants)
C22_GrantNeverWritten == [][PollEntered => codeResp' = codeResp]_vars

\* two attempts have been made with the caller's device code and the poll
\* waits for its third timer, set to the grant's Interval
C22_Witness ==
    /\ pc = "Waiting"
    /\ ValidGrant
    /\ attempts = 2
    /\ timersMade = 3
    /\ requestBody.code = "abc"
    /\ LastWait = codeResp.Interval

---------------------------------------------------------------------------
(* C23 *)

\* C23: whenever GenerateNewCodeContext, RequestTokenContext,
\* RefreshAccessTokenContext or PollForAuthTokenContext returns a non-nil
\* error, the record returned with it is the zero value: no partially filled
\* CodeResponse or TokenResponse accompanies an error (both variants).
C23_ErrorComesWithZeroValue ==
    /\ genResult.err # Nil => genResult.resp = ZeroCodeResponse
    /\ reqResult.err # Nil => reqResult.resp = ZeroTokenResponse
    /\ refreshResult.err # Nil => refreshResult.resp = ZeroTokenResponse
    /\ pollResult.err # Nil => pollResult.resp = ZeroTokenResponse

\* the poll made an attempt that was answered "not yet claimed" and then
\* returned from the case <-ctx.Done() with an error and the zero value
C23_Witness ==
    /\ PollReturned
    /\ pollExit = "ctx"
    /\ Len(outcomes) >= 1
    /\ reqResult.err = ErrDeviceCodeUnclaimed
    /\ reqResult.resp = ZeroTokenResponse
    /\ pollResult.err # Nil
    /\ pollResult.resp = ZeroTokenResponse

---------------------------------------------------------------------------
(* C24 *)

\* the poll has made no exchange attempt and, if it has returned, has
\* returned the error of the case <-ctx.Done()
NoAttemptAndExceeded ==
    /\ attempts = 0
    /\ outcomes = << >>
    /\ PollReturned => (pollExit = "ctx" /\ IsExceededContext(pollResult))

\* C24: if the grant's ExpiresIn is smaller than its Interval (ExpiresIn <= 0
\* with Interval > 0 included), the poll makes zero exchange attempts and
\* returns the deadline-exceeded error.
C24_ShortGrantMakesNoAttempt ==
    (PollEntered /\ codeResp.ExpiresIn < codeResp.Interval) => NoAttemptAndExceeded

\* C24 for grants whose Interval is positive: the deadline comes before the
\* first timer fires, so only ctx.Done() is ever ready (both variants)
C24_ShortGrantPositiveInterval ==
    (PollEntered /\ codeResp.ExpiresIn < codeResp.Interval /\ codeResp.Interval > 0)
        => NoAttemptAndExceeded

\* a poll with ExpiresIn = 1 and Interval = 2 has returned without an attempt
C24_ShortGrantReturned ==
    /\ PollReturned
    /\ codeResp.ExpiresIn = 1
    /\ codeResp.Interval = 2
    /\ NoAttemptAndExceeded


====
